---- MODULE Spec2Model ----
(***************************************************************************)
(* Authentication core of the FastAPI CRUD backend: AuthService            *)
(* (src/apps/auth/services.py), its ledger models                          *)
(* (src/apps/auth/models.py), the UserService calls it makes               *)
(* (src/apps/users/services.py), the token and hash helpers                *)
(* (src/utils/auth.py, src/core/security*.py) and the auth endpoints       *)
(* (src/apps/auth/views.py).                                               *)
(*                                                                         *)
(* Time is counted in minutes.  A service call is one step (requests are   *)
(* handled synchronously, one database session per request), except in     *)
(* SpecSteps, where login and logout advance commit by commit and          *)
(* interleave, and in SpecResetRace, where two password resets do.  The    *)
(* demo catalogue and its orders (src/apps/demo/services.py) and the rate  *)
(* limiter of the middleware (src/apps/auth/middleware.py) are included.   *)
(***************************************************************************)
EXTENDS Integers, Sequences, FiniteSets, TLC

(***************************************************************************)
(* Bounds of the model                                                     *)
(***************************************************************************)
MaxAttempts == 1        \* rows of auth_login_attempts explored by Spec
MaxThrottleAttempts == 6 \* rows of auth_login_attempts explored by SpecThrottle
MaxTokens == 1          \* rows of auth_refresh_tokens
MaxResets == 2          \* rows of auth_password_reset_tokens
MaxSessions == 1        \* rows of user_sessions
MaxTicks == 1           \* number of clock advances
MaxUsers == 3           \* rows of users explored by SpecSignup
MaxSignupAttempts == 2  \* rows of auth_login_attempts explored by SpecSignup
MaxProducts == 3        \* rows of demo_product
MaxStock == 2           \* stock_quantity of a new product; an item asks for up to one more
MaxItems == 2           \* items of one order
MaxOrders == 1          \* rows of demo_order
MaxStocked == 2         \* rows of demo_product explored by SpecOrders
MaxRateTime == 4        \* seconds the clock of the rate limiter runs
rate_limit_attempts == 2   \* AuthenticationMiddleware(rate_limit_attempts=2, ...)
rate_limit_window == 2     \* AuthenticationMiddleware(..., rate_limit_window=2), seconds

(***************************************************************************)
(* Program constants                                                       *)
(***************************************************************************)
ThrottleWindowMinutes == 15          \* timedelta(minutes=15)
ThrottleMaxFailures == 5             \* len(failed_attempts) >= 5
ResetRowTTLMinutes == 60             \* timedelta(hours=1)
RefreshTTLMinutes == 43200           \* timedelta(days=30)
RecoveryExpiresIn == 60              \* expires_in=60 of the recovery response
EMAIL_RESET_TOKEN_EXPIRE_HOURS == 1  \* settings (src/core/config.py)
ACCESS_TOKEN_EXPIRE_MINUTES == 30    \* settings (src/core/config.py)

None == "None"          \* Python None for string-valued fields
NoTime == -1            \* Python None for datetime-valued fields

UserIds == {"u1", "u2"}
EmailOfUser == [u \in UserIds |-> IF u = "u1" THEN "a@x.com" ELSE "b@x.com"]
GhostEmail == "ghost@nowhere.com"
Emails == {EmailOfUser[u] : u \in UserIds} \cup {GhostEmail}
Passwords == {"pw1", "pw2"}
IpAddresses == {None, "10.0.0.1"}

\* addresses as clients type them: letter-case variants of the registered
\* addresses, and the addresses of a new account
CaseVariants == {"A@x.com", "a@X.com"}
SignupEmails == {"c@x.com", "C@x.com", "A@x.com"}

\* str.lower() on the addresses above
lower(v) ==
    CASE v \in {"A@x.com", "a@X.com"} -> "a@x.com"
      [] v = "C@x.com" -> "c@x.com"
      [] OTHER -> v

\* pydantic EmailStr: the validated value has its domain part in lower case,
\* its local part as typed
EmailStr(v) == IF v = "a@X.com" THEN "a@x.com" ELSE v

\* UserCreate.normalize_email
normalize_email(v) == lower(v)

(***************************************************************************)
(* Tokens.  A token is a string in the code; the model keeps what the      *)
(* string encodes.  kind "jwt": a token signed with settings.SECRET_KEY    *)
(* (sub, exp, nbf; nbf = NoTime when the claim is absent).  kind           *)
(* "urlsafe": secrets.token_urlsafe(32), n being the random value.  kind   *)
(* "garbage": a string that is no signed token.  n also separates two      *)
(* tokens minted within the same minute (the code's clock has microsecond  *)
(* resolution).                                                            *)
(***************************************************************************)
Jwt(sub, exp, nbf, n) == [kind |-> "jwt", sub |-> sub, exp |-> exp, nbf |-> nbf, n |-> n]
UrlSafe(n) == [kind |-> "urlsafe", sub |-> None, exp |-> NoTime, nbf |-> NoTime, n |-> n]
Garbage == [kind |-> "garbage", sub |-> None, exp |-> NoTime, nbf |-> NoTime, n |-> 0]
NoToken == [kind |-> "none", sub |-> None, exp |-> NoTime, nbf |-> NoTime, n |-> 0]

\* hashlib.sha256(token.encode()).hexdigest(): collision-free, not the identity
_hash_token(token) == [sha256 |-> token]

\* security.create_access_token(subject, expires_delta)
create_access_token(subject, expires_delta, now) == Jwt(subject, now + expires_delta, NoTime, 0)

\* utils.auth.generate_password_reset_token(email); expire_hours is
\* settings.EMAIL_RESET_TOKEN_EXPIRE_HOURS as configured
generate_password_reset_token(email, expire_hours, now, n) ==
    Jwt(email, now + expire_hours * 60, now, n)

\* the lifetimes a deployment may configure for the signed reset token
ResetTokenLifetimes == {EMAIL_RESET_TOKEN_EXPIRE_HOURS, 48}

\* utils.auth.verify_password_reset_token(token): jwt.decode checks the
\* signature, exp (expired when exp <= now) and nbf (immature when nbf > now)
verify_password_reset_token(token, now) ==
    IF token.kind = "jwt" /\ token.exp > now /\ token.nbf <= now
    THEN token.sub
    ELSE None

(***************************************************************************)
(* Password hashes: self-describing (algorithm prefix), salted.  The model *)
(* keeps the algorithm and the password the digest was computed from.      *)
(***************************************************************************)
HashAlgorithms == {"bcrypt", "argon2"}

bcrypt_hash(password) == [alg |-> "bcrypt", pw |-> password]
argon2_hash(password) == [alg |-> "argon2", pw |-> password]

\* security_unified.get_password_hash
unified_get_password_hash(password, algorithm) ==
    IF algorithm = "bcrypt" THEN bcrypt_hash(password) ELSE argon2_hash(password)

\* security_unified.verify_password: dispatch on the prefix of the hash
unified_verify_password(plain_password, hashed_password) ==
    hashed_password.pw = plain_password

\* upgrade_password_hash that never rehashes: the stored hash stays as it is
upgrade_password_hash_never(plain_password, current_hash, algorithm) == current_hash

\* security_unified.upgrade_password_hash: None is modelled by the current hash
upgrade_password_hash(plain_password, current_hash, algorithm) ==
    IF current_hash.alg # algorithm
    THEN unified_get_password_hash(plain_password, algorithm)
    ELSE current_hash

\* security.get_password_hash (bcrypt, the one AuthService imports)
get_password_hash(password) == bcrypt_hash(password)

\* security.verify_password (the one AuthService imports): bcrypt.checkpw,
\* which raises ValueError ("Invalid salt") for a hash that is no bcrypt hash
verify_password(plain_password, hashed_password) ==
    IF hashed_password.alg # "bcrypt" THEN "ValueError"
    ELSE IF hashed_password.pw = plain_password THEN "True"
    ELSE "False"

(***************************************************************************)
(* Queries.  A WHERE criterion is either a comparison of a column with a   *)
(* value (Model.column == value, >=, >) or a Python bool, which SQLAlchemy *)
(* coerces to the SQL constant true()/false().  An expression such as      *)
(* `RefreshToken.revoked is False` is evaluated by Python when the query   *)
(* is built: it is the identity test of the column attribute with the bool *)
(* singleton, and its value, a bool, is what and_()/where() receives.      *)
(***************************************************************************)
Cmp(column, op, value) == [kind |-> "cmp", column |-> column, op |-> op, value |-> value]
Literal(b) == [kind |-> "literal", column |-> "", op |-> "", value |-> b]

\* Python objects taking part in an identity test
Attr(class, key) == [type |-> "InstrumentedAttribute", of |-> class, key |-> key]
PyBool(b) == [type |-> "bool", of |-> "", key |-> IF b THEN "True" ELSE "False"]

\* Python `a is b`: object identity, never overloaded by the left operand
PyIs(a, b) == a = b

Holds(row, c) ==
    IF c.kind = "literal" THEN c.value
    ELSE CASE c.op = "eq" -> row[c.column] = c.value
           [] c.op = "ge" -> row[c.column] >= c.value
           [] c.op = "gt" -> row[c.column] > c.value

\* and_(*criteria) / where(*criteria): every criterion must hold
and_(row, criteria) == \A i \in 1..Len(criteria) : Holds(row, criteria[i])

\* session.exec(select(T).where(...)).all(): the indices of the matching rows
SelectAll(table, criteria) == {i \in 1..Len(table) : and_(table[i], criteria)}

\* .first(): the first matching row (0: None)
SelectFirst(table, criteria) ==
    IF SelectAll(table, criteria) = {} THEN 0
    ELSE CHOOSE i \in SelectAll(table, criteria) :
             \A j \in SelectAll(table, criteria) : i <= j

(***************************************************************************)
(* State.  The database holds two registered users whose password is       *)
(* "pw1": u1 with a bcrypt hash (an account older than the configured      *)
(* algorithm), u2 with a hash of the configured algorithm.                 *)
(***************************************************************************)
VARIABLES
    settings,         \* configuration read by the code
    now,              \* datetime.now(timezone.utc), minutes
    ticks,            \* clock advances so far
    users,            \* table users
    refresh_tokens,   \* table auth_refresh_tokens
    reset_tokens,     \* table auth_password_reset_tokens
    login_attempts,   \* table auth_login_attempts
    sessions,         \* table user_sessions
    products,         \* table demo_product
    orders,           \* table demo_order with its demo_order_item rows
    rate_limit_storage, \* AuthenticationMiddleware.rate_limit_storage
    admitted,         \* history: the calls _check_rate_limit let through, per address
    inflight,         \* the requests being handled step by step, commit by commit
    last              \* the last call: operation, arguments, outcome

vars == <<settings, now, ticks, users, refresh_tokens, reset_tokens,
          login_attempts, sessions, products, orders, rate_limit_storage, admitted,
          inflight, last>>

\* the state no operation of the authentication service handled in one step touches
rest == <<products, orders, rate_limit_storage, admitted, inflight>>

\* the state of the rate-limiting middleware
limiter == <<rate_limit_storage, admitted>>

\* no request is being handled step by step
Idle == [pc |-> "idle"]

\* the two clients whose reset_password calls interleave
ResetCallers == {"r1", "r2"}

NoCall == [op |-> "none", arg |-> <<>>, result |-> None, out |-> <<>>, pre |-> <<>>]

\* the state after construction, for the configured reset-token lifetimes given
InitWith(lifetimes) ==
    /\ settings \in [PASSWORD_HASH_ALGORITHM : HashAlgorithms,
                     EMAIL_RESET_TOKEN_EXPIRE_HOURS : lifetimes]
    /\ now = 0
    /\ ticks = 0
    /\ users = [u \in UserIds |->
                   [email |-> EmailOfUser[u],
                    hashed_password |-> IF u = "u1"
                                        THEN bcrypt_hash("pw1")
                                        ELSE unified_get_password_hash(
                                                 "pw1", settings.PASSWORD_HASH_ALGORITHM),
                    is_active |-> TRUE]]
    /\ refresh_tokens = <<>>
    /\ reset_tokens = <<>>
    /\ login_attempts = <<>>
    /\ sessions = <<>>
    /\ products = <<>>
    /\ orders = <<>>
    /\ rate_limit_storage = <<>>
    /\ admitted = <<>>
    /\ inflight = [login |-> Idle, logout |-> Idle, reset |-> [c \in ResetCallers |-> Idle]]
    /\ last = NoCall

Init == InitWith({EMAIL_RESET_TOKEN_EXPIRE_HOURS})

(***************************************************************************)
(* Model methods (src/apps/auth/models.py)                                 *)
(***************************************************************************)
\* RefreshToken.is_valid
RefreshToken_is_valid(row, t) == ~row.revoked /\ row.expires_at > t

\* RefreshToken.revoke that forgets the timestamp
RefreshToken_revoke_no_timestamp(row, t) == [row EXCEPT !.revoked = TRUE]

\* RefreshToken.revoke
RefreshToken_revoke(row, t) == [row EXCEPT !.revoked = TRUE, !.revoked_at = t]

\* PasswordResetToken.is_valid
PasswordResetToken_is_valid(row, t) == ~row.used /\ row.expires_at > t

\* PasswordResetToken.mark_used
PasswordResetToken_mark_used(row, t) == [row EXCEPT !.used = TRUE, !.used_at = t]

(***************************************************************************)
(* UserService (src/apps/users/services.py)                                *)
(***************************************************************************)
\* UserService.get_user_by_email: select(User).where(User.email == email).first()
get_user_by_email(email) ==
    IF \E u \in DOMAIN users : users[u].email = email
    THEN CHOOSE u \in DOMAIN users : users[u].email = email
    ELSE None

\* UserService.authenticate_user: the exception raised ("ok": none) and the
\* hash the user record holds afterwards
user_service_authenticate_user(email, password) ==
    LET u == get_user_by_email(email) IN
    IF u = None \/ ~unified_verify_password(password, users[u].hashed_password)
    THEN [error |-> "InvalidCredentialsError", user |-> None]
    ELSE IF ~users[u].is_active
    THEN [error |-> "InactiveUserError", user |-> u]
    ELSE [error |-> "ok", user |-> u]

\* UserService.get_active_sessions
get_active_sessions(user_id) ==
    SelectAll(sessions,
              <<Cmp("user_id", "eq", user_id),
                Literal(PyIs(Attr("UserSession", "is_active"), PyBool(TRUE))),
                Cmp("expires_at", "gt", now)>>)

\* UserService.invalidate_user_sessions: the table afterwards
invalidate_user_sessions(user_id) ==
    [i \in 1..Len(sessions) |->
        IF i \in get_active_sessions(user_id)
        THEN [sessions[i] EXCEPT !.is_active = FALSE]
        ELSE sessions[i]]

(***************************************************************************)
(* AuthService private helpers (src/apps/auth/services.py)                 *)
(***************************************************************************)
\* _check_login_attempts that counts every row of the email: no window, no
\* test of successful, no test of the address
_check_login_attempts_counts_all(email, ip_address) ==
    Cardinality(SelectAll(login_attempts, <<Cmp("email", "eq", email)>>)) >= ThrottleMaxFailures

\* AuthService._check_login_attempts: TRUE when it raises TooManyLoginAttemptsError
_check_login_attempts(email, ip_address) ==
    LET since == now - ThrottleWindowMinutes
        conditions ==
            <<Cmp("email", "eq", email),
              Literal(PyIs(Attr("LoginAttempt", "successful"), PyBool(FALSE))),
              Cmp("created_at", "ge", since)>>
            \o (IF ip_address # None THEN <<Cmp("ip_address", "eq", ip_address)>> ELSE <<>>)
        failed_attempts == SelectAll(login_attempts, conditions)
    IN  Cardinality(failed_attempts) >= ThrottleMaxFailures

\* AuthService._log_login_attempt: the table afterwards
_log_login_attempt(email, successful, user_id, failure_reason, ip_address) ==
    Append(login_attempts,
           [email |-> email, successful |-> successful, user_id |-> user_id,
            failure_reason |-> failure_reason, ip_address |-> ip_address,
            created_at |-> now])

\* _create_tokens with the remember_me test dropped: a refresh token is always minted
_create_tokens_always_refresh(user_id, remember_me) ==
    [access_token |-> create_access_token(user_id, ACCESS_TOKEN_EXPIRE_MINUTES, now),
     refresh_token |-> UrlSafe(Len(refresh_tokens) + 1),
     table |-> Append(refresh_tokens,
                      [token_hash |-> _hash_token(UrlSafe(Len(refresh_tokens) + 1)),
                       user_id |-> user_id,
                       expires_at |-> now + RefreshTTLMinutes,
                       revoked |-> FALSE,
                       revoked_at |-> NoTime,
                       created_at |-> now])]

\* AuthService._create_tokens: the TokenResponse and the table afterwards
_create_tokens(user_id, remember_me) ==
    LET access_token == create_access_token(user_id, ACCESS_TOKEN_EXPIRE_MINUTES, now)
        refresh_token == UrlSafe(Len(refresh_tokens) + 1)
    IN  IF remember_me
        THEN [access_token |-> access_token,
              refresh_token |-> refresh_token,
              table |-> Append(refresh_tokens,
                               [token_hash |-> _hash_token(refresh_token),
                                user_id |-> user_id,
                                expires_at |-> now + RefreshTTLMinutes,
                                revoked |-> FALSE,
                                revoked_at |-> NoTime,
                                created_at |-> now])]
        ELSE [access_token |-> access_token,
              refresh_token |-> NoToken,
              table |-> refresh_tokens]

\* AuthService._create_user_session: the table afterwards (the new row is the last)
_create_user_session(user_id) ==
    Append(sessions,
           [user_id |-> user_id,
            expires_at |-> now + ACCESS_TOKEN_EXPIRE_MINUTES,
            is_active |-> TRUE,
            created_at |-> now])

(***************************************************************************)
(* What the claims count, independently of the queries of the code         *)
(***************************************************************************)
\* failed attempts for the email (from the ip, when one is supplied) within
\* the trailing 15 minutes
RecentFailures(email, ip_address) ==
    Cardinality({i \in 1..Len(login_attempts) :
        /\ login_attempts[i].email = email
        /\ ~login_attempts[i].successful
        /\ login_attempts[i].created_at >= now - ThrottleWindowMinutes
        /\ (ip_address # None => login_attempts[i].ip_address = ip_address)})

\* why a login with these credentials cannot succeed ("none": it can)
LoginFailureCause(email, password) ==
    IF get_user_by_email(email) = None THEN "unknown_email"
    ELSE IF users[get_user_by_email(email)].hashed_password.pw # password THEN "wrong_password"
    ELSE IF ~users[get_user_by_email(email)].is_active THEN "inactive_account"
    ELSE "none"

(***************************************************************************)
(* Login: views.login / views.login_access_token calling                   *)
(* AuthService.authenticate_user                                           *)
(***************************************************************************)
\* the HTTP answer of the two login endpoints for an outcome of the service
login_response(endpoint, outcome) ==
    CASE outcome = "ok" -> [status |-> 200, detail |-> ""]
      [] outcome = "TooManyLoginAttemptsError" ->
            [status |-> 429, detail |-> "Too many failed login attempts. Please try again later."]
      [] outcome = "InvalidCredentialsError" ->
            IF endpoint = "login"
            THEN [status |-> 401, detail |-> "Invalid email or password"]
            ELSE [status |-> 400, detail |-> "Incorrect email or password"]
      [] OTHER -> [status |-> 500, detail |-> "Internal Server Error"]

authenticate_user(endpoint, email, password, remember_me, ip_address) ==
    LET auth == user_service_authenticate_user(email, password)
        outcome == IF _check_login_attempts(email, ip_address)
                   THEN "TooManyLoginAttemptsError"
                   ELSE auth.error
        tokens == _create_tokens(auth.user, remember_me)
        pre == [failures |-> RecentFailures(email, ip_address),
                cause |-> LoginFailureCause(email, password),
                refresh_rows |-> Len(refresh_tokens),
                attempt_rows |-> Len(login_attempts),
                session_rows |-> Len(sessions),
                users |-> users]
        arg == [endpoint |-> endpoint, email |-> email, password |-> password,
                remember_me |-> remember_me, ip_address |-> ip_address]
        Call(out) == [op |-> "authenticate_user", arg |-> arg, result |-> outcome,
                      out |-> out, pre |-> pre]
        Failed == [http |-> login_response(endpoint, outcome),
                   access_token |-> NoToken, refresh_token |-> NoToken, session_id |-> 0,
                   credentials_checked |-> outcome # "TooManyLoginAttemptsError"]
    IN
    CASE outcome = "TooManyLoginAttemptsError" ->
            /\ last' = Call(Failed)
            /\ UNCHANGED <<rest, settings, now, ticks, users, refresh_tokens, reset_tokens,
                           login_attempts, sessions>>
      [] outcome = "InvalidCredentialsError" ->
            /\ login_attempts' = _log_login_attempt(email, FALSE, None,
                                                    "Invalid email or password", ip_address)
            /\ last' = Call(Failed)
            /\ UNCHANGED <<rest, settings, now, ticks, users, refresh_tokens, reset_tokens, sessions>>
      [] outcome = "InactiveUserError" ->
            /\ last' = Call(Failed)
            /\ UNCHANGED <<rest, settings, now, ticks, users, refresh_tokens, reset_tokens,
                           login_attempts, sessions>>
      [] outcome = "ok" ->
            /\ Len(sessions) < MaxSessions
            /\ remember_me => Len(refresh_tokens) < MaxTokens
            /\ users' = [users EXCEPT ![auth.user].hashed_password =
                            upgrade_password_hash(password, @, settings.PASSWORD_HASH_ALGORITHM)]
            /\ refresh_tokens' = tokens.table
            /\ sessions' = _create_user_session(auth.user)
            /\ login_attempts' = _log_login_attempt(email, TRUE, auth.user, None, ip_address)
            /\ last' = Call([http |-> login_response(endpoint, outcome),
                             access_token |-> tokens.access_token,
                             refresh_token |-> tokens.refresh_token,
                             session_id |-> Len(sessions) + 1,
                             credentials_checked |-> TRUE])
            /\ UNCHANGED <<rest, settings, now, ticks, reset_tokens>>

\* POST /auth/login
Login ==
    \E email \in Emails, password \in Passwords, remember_me \in BOOLEAN, ip \in {None} :
        /\ Len(login_attempts) < MaxAttempts
        /\ authenticate_user("login", email, password, remember_me, ip)

\* POST /auth/login/access-token: remember_me=False
LoginAccessToken ==
    \E email \in Emails, password \in Passwords, ip \in {None} :
        /\ Len(login_attempts) < MaxAttempts
        /\ authenticate_user("login_access_token", email, password, FALSE, ip)

(***************************************************************************)
(* Signup: views.signup calling AuthService.register_user, which calls     *)
(* UserService.create_user.  email is SignupRequest.email.                 *)
(***************************************************************************)
\* the id of the next row of users
new_user_id == "u" \o ToString(Cardinality(DOMAIN users) + 1)

\* UserService.create_user(UserCreate(email=..., password=...)): the exception
\* raised ("ok": none) and the table afterwards
create_user(email, password) ==
    LET user_data == [email |-> normalize_email(email), password |-> password] IN
    IF get_user_by_email(user_data.email) # None
    THEN [error |-> "UserAlreadyExistsError", user |-> None, table |-> users]
    ELSE [error |-> "ok",
          user |-> new_user_id,
          table |-> [u \in DOMAIN users \cup {new_user_id} |->
                        IF u \in DOMAIN users THEN users[u]
                        ELSE [email |-> user_data.email,
                              hashed_password |-> unified_get_password_hash(
                                  user_data.password, settings.PASSWORD_HASH_ALGORITHM),
                              is_active |-> TRUE]]]

register_user(email, password, ip_address) ==
    LET created == create_user(email, password)
        Call == [op |-> "register_user",
                 arg |-> [email |-> email, password |-> password, ip_address |-> ip_address],
                 result |-> created.error,
                 out |-> [user |-> created.user,
                          http |-> IF created.error = "ok" THEN 201 ELSE 400],
                 pre |-> [users |-> users, attempt_rows |-> Len(login_attempts)]]
    IN
    /\ last' = Call
    /\ users' = created.table
    /\ IF created.error = "ok"
       THEN login_attempts' = _log_login_attempt(email, TRUE, created.user,
                                                 "user_registration", ip_address)
       ELSE UNCHANGED login_attempts
    /\ UNCHANGED <<rest, settings, now, ticks, refresh_tokens, reset_tokens, sessions>>

\* POST /auth/signup
RegisterUser ==
    \E email \in SignupEmails, password \in {"pw1"} :
        /\ Cardinality(DOMAIN users) < MaxUsers
        /\ Len(login_attempts) < MaxSignupAttempts
        /\ register_user(EmailStr(email), password, None)

(***************************************************************************)
(* Refresh: AuthService.refresh_access_token                               *)
(***************************************************************************)
\* refresh_access_token that takes the row whose hash matches and skips is_valid()
refresh_access_token_unchecked(refresh_token) ==
    LET db_token == SelectFirst(refresh_tokens,
                        <<Cmp("token_hash", "eq", _hash_token(refresh_token))>>)
    IN  IF db_token = 0 \/ ~users[refresh_tokens[db_token].user_id].is_active
        THEN [result |-> "InvalidTokenError", access_token |-> NoToken]
        ELSE [result |-> "ok",
              access_token |-> create_access_token(refresh_tokens[db_token].user_id,
                                                   ACCESS_TOKEN_EXPIRE_MINUTES, now)]

\* refresh_access_token that redeems a valid row without loading its user
refresh_access_token_any_user(refresh_token) ==
    LET db_token == SelectFirst(refresh_tokens,
                        <<Cmp("token_hash", "eq", _hash_token(refresh_token))>>)
    IN  IF db_token = 0 \/ ~RefreshToken_is_valid(refresh_tokens[db_token], now)
        THEN [result |-> "InvalidTokenError", access_token |-> NoToken]
        ELSE [result |-> "ok",
              access_token |-> create_access_token(refresh_tokens[db_token].user_id,
                                                   ACCESS_TOKEN_EXPIRE_MINUTES, now)]

\* the exception raised ("ok": none) and the access token returned
refresh_access_token_outcome(refresh_token) ==
    LET token_hash == _hash_token(refresh_token)
        db_token == SelectFirst(refresh_tokens,
                        <<Cmp("token_hash", "eq", token_hash),
                          Literal(PyIs(Attr("RefreshToken", "revoked"), PyBool(FALSE)))>>)
    IN  IF db_token = 0 \/ ~RefreshToken_is_valid(refresh_tokens[db_token], now)
        THEN [result |-> "InvalidTokenError", access_token |-> NoToken]
        ELSE IF ~users[refresh_tokens[db_token].user_id].is_active
        THEN [result |-> "InvalidTokenError", access_token |-> NoToken]
        ELSE [result |-> "ok",
              access_token |-> create_access_token(refresh_tokens[db_token].user_id,
                                                   ACCESS_TOKEN_EXPIRE_MINUTES, now)]

refresh_access_token(refresh_token) ==
    /\ last' = [op |-> "refresh_access_token",
                arg |-> [refresh_token |-> refresh_token],
                result |-> refresh_access_token_outcome(refresh_token).result,
                out |-> [access_token |-> refresh_access_token_outcome(refresh_token).access_token],
                pre |-> [table |-> refresh_tokens]]
    /\ UNCHANGED <<rest, settings, now, ticks, users, refresh_tokens, reset_tokens,
                   login_attempts, sessions>>

\* the raw secrets a client can present: those handed out by a login, or any other string
Refresh ==
    \E refresh_token \in {UrlSafe(n) : n \in 1..Len(refresh_tokens)} \cup {Garbage} :
        refresh_access_token(refresh_token)

(***************************************************************************)
(* Logout: AuthService.logout_user.  user_id is the argument as passed: a  *)
(* uuid.UUID (what views.logout passes) or the str form of the id.         *)
(***************************************************************************)
PyUUID(value) == [type |-> "UUID", value |-> value]
PyStr(value) == [type |-> "str", value |-> value]

\* uuid.UUID(arg): accepts the str form only; a UUID argument has no
\* .replace and raises AttributeError
uuid_UUID(arg) == IF arg.type = "str" THEN "ok" ELSE "AttributeError"

\* the rows logout_user calls revoke() on
logout_selected_tokens(user_id, refresh_token, all_devices) ==
    IF all_devices
    THEN SelectAll(refresh_tokens,
                   <<Cmp("user_id", "eq", user_id.value),
                     Literal(PyIs(Attr("RefreshToken", "revoked"), PyBool(FALSE)))>>)
    ELSE IF refresh_token # NoToken
    THEN {SelectFirst(refresh_tokens,
                      <<Cmp("token_hash", "eq", _hash_token(refresh_token)),
                        Cmp("user_id", "eq", user_id.value),
                        Literal(PyIs(Attr("RefreshToken", "revoked"), PyBool(FALSE)))>>)} \ {0}
    ELSE {}

logout_user(user_id, refresh_token, all_devices) ==
    LET selected == logout_selected_tokens(user_id, refresh_token, all_devices)
        outcome == uuid_UUID(user_id)
        Call == [op |-> "logout_user",
                 arg |-> [user_id |-> user_id, refresh_token |-> refresh_token,
                          all_devices |-> all_devices],
                 result |-> outcome,
                 out |-> [returned |-> outcome = "ok",
                          http |-> IF outcome = "ok" THEN 200 ELSE 500],
                 pre |-> [table |-> refresh_tokens]]
    IN
    /\ last' = Call
    /\ IF outcome = "ok"
       THEN /\ refresh_tokens' =
                   [i \in 1..Len(refresh_tokens) |->
                       IF i \in selected
                       THEN RefreshToken_revoke(refresh_tokens[i], now)
                       ELSE refresh_tokens[i]]
            /\ sessions' = invalidate_user_sessions(user_id.value)
       ELSE \* the exception leaves before session.commit(): nothing is persisted
            UNCHANGED <<refresh_tokens, sessions>>
    /\ UNCHANGED <<rest, settings, now, ticks, users, reset_tokens, login_attempts>>

\* the id as views.logout passes it or as a string; refresh_token is read only
\* when all_devices is false
Logout ==
    \E u \in UserIds, form \in {"UUID", "str"}, all_devices \in BOOLEAN,
       refresh_token \in {UrlSafe(n) : n \in 1..Len(refresh_tokens)} \cup {NoToken} :
        /\ all_devices => refresh_token = NoToken
        /\ logout_user(IF form = "UUID" THEN PyUUID(u) ELSE PyStr(u), refresh_token, all_devices)

(***************************************************************************)
(* Password recovery: views.request_password_reset calling                 *)
(* AuthService.request_password_reset                                      *)
(***************************************************************************)
\* the answer of POST /auth/password-recovery: the try block ran to its end
\* (the service returned a token and send_email did not raise) or not
recovery_response(completed) ==
    IF completed
    THEN [status |-> 200, message |-> "Password recovery email sent",
          expires_in |-> RecoveryExpiresIn]
    ELSE [status |-> 200, message |-> "If the email exists, a reset link has been sent",
          expires_in |-> RecoveryExpiresIn]

\* email_sent: generate_reset_password_email and send_email returned; send_email
\* raises AssertionError when settings.emails_enabled is false
request_password_reset(email, email_sent) ==
    LET user == get_user_by_email(email)
        reset_token == generate_password_reset_token(email, settings.EMAIL_RESET_TOKEN_EXPIRE_HOURS,
                                                     now, Len(reset_tokens) + 1)
        Call(result, out) == [op |-> "request_password_reset", arg |-> [email |-> email, email_sent |-> email_sent],
                              result |-> result, out |-> out,
                              pre |-> [rows |-> Len(reset_tokens)]]
    IN
    IF user = None
    THEN /\ last' = Call("UserNotFoundError",
                         [response |-> recovery_response(FALSE), emailed |-> NoToken])
         /\ UNCHANGED <<rest, settings, now, ticks, users, refresh_tokens, reset_tokens,
                        login_attempts, sessions>>
    ELSE /\ Len(reset_tokens) < MaxResets
         /\ reset_tokens' = Append(reset_tokens,
                                   [token_hash |-> _hash_token(reset_token),
                                    user_id |-> user,
                                    email |-> email,
                                    expires_at |-> now + ResetRowTTLMinutes,
                                    used |-> FALSE,
                                    used_at |-> NoTime,
                                    created_at |-> now])
         /\ last' = Call("ok",
                         [response |-> recovery_response(email_sent),
                          emailed |-> IF email_sent THEN reset_token ELSE NoToken])
         /\ UNCHANGED <<rest, settings, now, ticks, users, refresh_tokens, login_attempts, sessions>>

RequestPasswordReset ==
    \E email \in Emails, email_sent \in BOOLEAN : request_password_reset(email, email_sent)

(***************************************************************************)
(* Password reset: AuthService.reset_password                              *)
(***************************************************************************)
\* the lookup with the flag compared in SQL: used = false
reset_db_token_unused(token) ==
    SelectFirst(reset_tokens,
                <<Cmp("token_hash", "eq", _hash_token(token)),
                  Cmp("email", "eq", verify_password_reset_token(token, now)),
                  Cmp("used", "eq", FALSE)>>)

\* the ledger row reset_password works on (0: None)
reset_db_token(token) ==
    SelectFirst(reset_tokens,
                <<Cmp("token_hash", "eq", _hash_token(token)),
                  Cmp("email", "eq", verify_password_reset_token(token, now)),
                  Literal(PyIs(Attr("PasswordResetToken", "used"), PyBool(FALSE)))>>)

\* what the claims call a redeemable token: a decodable token whose ledger
\* row is unused and unexpired
Redeemable(token) ==
    /\ verify_password_reset_token(token, now) # None
    /\ \E i \in 1..Len(reset_tokens) :
          /\ reset_tokens[i].token_hash = _hash_token(token)
          /\ reset_tokens[i].email = verify_password_reset_token(token, now)
          /\ ~reset_tokens[i].used
          /\ reset_tokens[i].expires_at > now

\* reset_password that marks the presented token's row used before validating
\* it, and commits that when the validation fails
reset_password_burns_token(token, new_password) ==
    /\ last' = [op |-> "reset_password",
                arg |-> [token |-> token, new_password |-> new_password],
                result |-> "InvalidTokenError",
                out |-> [http |-> 400],
                pre |-> [redeemable |-> Redeemable(token), users |-> users,
                         table |-> reset_tokens]]
    /\ reset_tokens' = [i \in 1..Len(reset_tokens) |->
                           IF reset_tokens[i].token_hash = _hash_token(token)
                           THEN PasswordResetToken_mark_used(reset_tokens[i], now)
                           ELSE reset_tokens[i]]
    /\ UNCHANGED <<rest, settings, now, ticks, users, refresh_tokens, login_attempts, sessions>>

\* reset_password that relies on the expiry the signed token carries and does
\* not look at the expires_at of the ledger row
reset_password_trusts_token_expiry(token, new_password) ==
    LET email == verify_password_reset_token(token, now)
        db_token == SelectFirst(reset_tokens,
                        <<Cmp("token_hash", "eq", _hash_token(token)),
                          Cmp("email", "eq", email),
                          Cmp("used", "eq", FALSE)>>)
        Call(result) == [op |-> "reset_password",
                         arg |-> [token |-> token, new_password |-> new_password],
                         result |-> result,
                         out |-> [http |-> IF result = "ok" THEN 200 ELSE 400],
                         pre |-> [redeemable |-> Redeemable(token),
                                  users |-> users,
                                  table |-> reset_tokens]]
    IN
    IF email = None \/ db_token = 0
    THEN /\ last' = Call("InvalidTokenError")
         /\ UNCHANGED <<rest, settings, now, ticks, users, refresh_tokens, reset_tokens,
                        login_attempts, sessions>>
    ELSE /\ users' = [users EXCEPT ![reset_tokens[db_token].user_id].hashed_password =
                         get_password_hash(new_password)]
         /\ reset_tokens' = [reset_tokens EXCEPT ![db_token] =
                                PasswordResetToken_mark_used(@, now)]
         /\ last' = Call("ok")
         /\ UNCHANGED <<rest, settings, now, ticks, refresh_tokens, login_attempts, sessions>>

\* reset_password that accepts any correctly signed token naming a user's
\* email, without consulting the ledger
reset_password_trusts_signature(token, new_password) ==
    LET email == verify_password_reset_token(token, now)
        user == get_user_by_email(email)
        Call(result) == [op |-> "reset_password",
                         arg |-> [token |-> token, new_password |-> new_password],
                         result |-> result,
                         out |-> [http |-> IF result = "ok" THEN 200 ELSE 400],
                         pre |-> [redeemable |-> Redeemable(token),
                                  users |-> users,
                                  table |-> reset_tokens]]
    IN
    IF email = None \/ user = None
    THEN /\ last' = Call("InvalidTokenError")
         /\ UNCHANGED <<rest, settings, now, ticks, users, refresh_tokens, reset_tokens,
                        login_attempts, sessions>>
    ELSE /\ users' = [users EXCEPT ![user].hashed_password = get_password_hash(new_password)]
         /\ last' = Call("ok")
         /\ UNCHANGED <<rest, settings, now, ticks, refresh_tokens, reset_tokens,
                        login_attempts, sessions>>

reset_password(token, new_password) ==
    LET email == verify_password_reset_token(token, now)
        db_token == reset_db_token(token)
        Call(result) == [op |-> "reset_password",
                         arg |-> [token |-> token, new_password |-> new_password],
                         result |-> result,
                         out |-> [http |-> CASE result = "ok" -> 200
                                             [] result = "InvalidTokenError" -> 400
                                             [] OTHER -> 500],
                         pre |-> [redeemable |-> Redeemable(token),
                                  users |-> users,
                                  table |-> reset_tokens]]
    IN
    IF email = None \/ db_token = 0
       \/ ~PasswordResetToken_is_valid(reset_tokens[db_token], now)
    THEN /\ last' = Call("InvalidTokenError")
         /\ UNCHANGED <<rest, settings, now, ticks, users, refresh_tokens, reset_tokens,
                        login_attempts, sessions>>
    ELSE /\ users' = [users EXCEPT ![reset_tokens[db_token].user_id].hashed_password =
                         get_password_hash(new_password)]
         /\ reset_tokens' = [reset_tokens EXCEPT ![db_token] =
                                PasswordResetToken_mark_used(@, now)]
         /\ last' = Call("ok")
         /\ UNCHANGED <<rest, settings, now, ticks, refresh_tokens, login_attempts, sessions>>

\* the tokens a client can present: those generated by a recovery request, or any other string
ResetPassword ==
    \E token \in {reset_tokens[i].token_hash.sha256 : i \in 1..Len(reset_tokens)} \cup {Garbage},
       new_password \in Passwords :
        reset_password(token, new_password)

(***************************************************************************)
(* Password change: views.change_password calling                          *)
(* AuthService.change_password, and UserService.update_user_password       *)
(***************************************************************************)
change_password(user_id, current_password, new_password) ==
    LET verified == verify_password(current_password, users[user_id].hashed_password)
        outcome == CASE verified = "True" -> "ok"
                     [] verified = "False" -> "InvalidCredentialsError"
                     [] OTHER -> verified
        Call == [op |-> "change_password",
                 arg |-> [user_id |-> user_id, current_password |-> current_password,
                          new_password |-> new_password],
                 result |-> outcome,
                 out |-> [http |-> IF outcome = "ok" THEN 200 ELSE 400],
                 pre |-> [users |-> users]]
    IN
    /\ last' = Call
    /\ users' = IF outcome = "ok"
                THEN [users EXCEPT ![user_id].hashed_password =
                         get_password_hash(new_password)]
                ELSE users
    /\ UNCHANGED <<rest, settings, now, ticks, refresh_tokens, reset_tokens,
                   login_attempts, sessions>>

\* POST /auth/change-password
ChangePassword ==
    \E u \in UserIds, current_password \in Passwords, new_password \in Passwords :
        change_password(u, current_password, new_password)

\* UserService.update_user_password
update_user_password(user_id, current_password, new_password) ==
    LET outcome == IF unified_verify_password(current_password, users[user_id].hashed_password)
                   THEN "ok"
                   ELSE "InvalidCredentialsError"
    IN
    /\ last' = [op |-> "update_user_password",
                arg |-> [user_id |-> user_id, current_password |-> current_password,
                         new_password |-> new_password],
                result |-> outcome,
                out |-> <<>>,
                pre |-> [users |-> users]]
    /\ users' = IF outcome = "ok"
                THEN [users EXCEPT ![user_id].hashed_password =
                         unified_get_password_hash(new_password,
                                                   settings.PASSWORD_HASH_ALGORITHM)]
                ELSE users
    /\ UNCHANGED <<rest, settings, now, ticks, refresh_tokens, reset_tokens,
                   login_attempts, sessions>>

UpdateUserPassword ==
    \E u \in UserIds, current_password \in Passwords, new_password \in Passwords :
        update_user_password(u, current_password, new_password)

(***************************************************************************)
(* AuthService.authenticate_user commit by commit.  The handler commits    *)
(* four times on its way to success: the upgraded hash                     *)
(* (UserService.authenticate_user), the refresh-token row (_create_tokens),*)
(* the session row (_create_user_session), the attempt row                 *)
(* (_log_login_attempt).  Each step below runs the handler up to its next  *)
(* commit; other requests are served in between.  commit_ok = FALSE: the   *)
(* commit raises (the database refuses it), and the exception, which the   *)
(* handler does not catch, ends the call.                                  *)
(***************************************************************************)
\* lines 107-113: the throttle check and UserService.authenticate_user, for
\* credentials that pass both
login_authenticate(email, password, remember_me, ip_address) ==
    LET auth == user_service_authenticate_user(email, password) IN
    /\ inflight.login.pc \in {"idle", "done"}
    /\ ~_check_login_attempts(email, ip_address)
    /\ auth.error = "ok"
    /\ users' = [users EXCEPT ![auth.user].hashed_password =
                    upgrade_password_hash(password, @, settings.PASSWORD_HASH_ALGORITHM)]
    /\ inflight' = [inflight EXCEPT !.login =
                       [pc |-> "tokens",
                        user |-> auth.user,
                        arg |-> [endpoint |-> "login", email |-> email, password |-> password,
                                 remember_me |-> remember_me, ip_address |-> ip_address],
                        pre |-> [failures |-> RecentFailures(email, ip_address),
                                 cause |-> LoginFailureCause(email, password),
                                 refresh_rows |-> Len(refresh_tokens),
                                 attempt_rows |-> Len(login_attempts),
                                 session_rows |-> Len(sessions),
                                 users |-> users],
                        access_token |-> NoToken,
                        refresh_token |-> NoToken,
                        session_id |-> 0,
                        result |-> None]]
    /\ UNCHANGED <<products, orders, limiter, settings, now, ticks, refresh_tokens, reset_tokens,
                   login_attempts, sessions, last>>

\* the record of a call of the handler that has ended
login_call(slot, result, session_id) ==
    [op |-> "authenticate_user", arg |-> slot.arg, result |-> result,
     out |-> [http |-> login_response(slot.arg.endpoint, result),
              access_token |-> IF result = "ok" THEN slot.access_token ELSE NoToken,
              refresh_token |-> IF result = "ok" THEN slot.refresh_token ELSE NoToken,
              session_id |-> session_id,
              credentials_checked |-> TRUE],
     pre |-> slot.pre]

\* lines 116-122: _create_tokens and its commit
login_create_tokens ==
    LET slot == inflight.login
        tokens == _create_tokens(slot.user, slot.arg.remember_me)
    IN
    /\ slot.pc = "tokens"
    /\ refresh_tokens' = tokens.table
    /\ inflight' = [inflight EXCEPT !.login =
                       [slot EXCEPT !.pc = "session",
                                    !.access_token = tokens.access_token,
                                    !.refresh_token = tokens.refresh_token]]
    /\ UNCHANGED <<products, orders, limiter, settings, now, ticks, users, reset_tokens,
                   login_attempts, sessions, last>>

\* line 125: _create_user_session and its commit
login_create_session(commit_ok) ==
    LET slot == inflight.login IN
    /\ slot.pc = "session"
    /\ IF commit_ok
       THEN /\ sessions' = _create_user_session(slot.user)
            /\ inflight' = [inflight EXCEPT !.login =
                               [slot EXCEPT !.pc = "log", !.session_id = Len(sessions) + 1]]
            /\ UNCHANGED last
       ELSE /\ inflight' = [inflight EXCEPT !.login =
                               [slot EXCEPT !.pc = "done", !.result = "OperationalError"]]
            /\ last' = login_call(slot, "OperationalError", 0)
            /\ UNCHANGED sessions
    /\ UNCHANGED <<products, orders, limiter, settings, now, ticks, users, refresh_tokens, reset_tokens,
                   login_attempts>>

\* lines 128-136: _log_login_attempt, its commit, and the return
login_log_attempt(commit_ok) ==
    LET slot == inflight.login
        result == IF commit_ok THEN "ok" ELSE "OperationalError"
    IN
    /\ slot.pc = "log"
    /\ login_attempts' = IF commit_ok
                         THEN _log_login_attempt(slot.arg.email, TRUE, slot.user, None,
                                                 slot.arg.ip_address)
                         ELSE login_attempts
    /\ inflight' = [inflight EXCEPT !.login = [slot EXCEPT !.pc = "done", !.result = result]]
    /\ last' = login_call(slot, result, IF commit_ok THEN slot.session_id ELSE 0)
    /\ UNCHANGED <<products, orders, limiter, settings, now, ticks, users, refresh_tokens, reset_tokens,
                   sessions>>

(***************************************************************************)
(* AuthService.logout_user in two steps: the SELECT of the rows to revoke  *)
(* (lines 251-278; revoke() changes the rows in the session, uncommitted), *)
(* then invalidate_user_sessions and the commit (lines 281-284)            *)
(***************************************************************************)
logout_select(user_id, refresh_token, all_devices) ==
    /\ inflight.logout.pc \in {"idle", "done"}
    /\ inflight' = [inflight EXCEPT !.logout =
                       [pc |-> "selected",
                        arg |-> [user_id |-> user_id, refresh_token |-> refresh_token,
                                 all_devices |-> all_devices],
                        selected |-> logout_selected_tokens(user_id, refresh_token,
                                                            all_devices),
                        revoked_at |-> now,
                        rows_seen |-> Len(refresh_tokens),
                        rows_at_end |-> 0,
                        result |-> None]]
    /\ UNCHANGED <<products, orders, limiter, settings, now, ticks, users, refresh_tokens, reset_tokens,
                   login_attempts, sessions, last>>

logout_finish ==
    LET slot == inflight.logout
        outcome == uuid_UUID(slot.arg.user_id)
    IN
    /\ slot.pc = "selected"
    /\ IF outcome = "ok"
       THEN /\ refresh_tokens' =
                   [i \in 1..Len(refresh_tokens) |->
                       IF i \in slot.selected
                       THEN RefreshToken_revoke(refresh_tokens[i], slot.revoked_at)
                       ELSE refresh_tokens[i]]
            /\ sessions' = invalidate_user_sessions(slot.arg.user_id.value)
       ELSE UNCHANGED <<refresh_tokens, sessions>>
    /\ inflight' = [inflight EXCEPT !.logout =
                       [slot EXCEPT !.pc = "done", !.result = outcome,
                                    !.rows_at_end = Len(refresh_tokens)]]
    /\ last' = [op |-> "logout_user", arg |-> slot.arg, result |-> outcome,
                out |-> [returned |-> outcome = "ok",
                         http |-> IF outcome = "ok" THEN 200 ELSE 500],
                pre |-> [table |-> refresh_tokens]]
    /\ UNCHANGED <<products, orders, limiter, settings, now, ticks, users, reset_tokens, login_attempts>>

(***************************************************************************)
(* reset_password handled in two steps by each of two clients, every       *)
(* client with a database session of its own                               *)
(***************************************************************************)
\* lines 343-358: the token is decoded and its ledger row is read
reset_select(c, token, new_password) ==
    LET db_token == reset_db_token(token) IN
    /\ inflight.reset[c].pc = "idle"
    /\ inflight' = [inflight EXCEPT !.reset[c] =
                       [pc |-> "selected",
                        token |-> token,
                        new_password |-> new_password,
                        email |-> verify_password_reset_token(token, now),
                        db_token |-> db_token,
                        loaded |-> IF db_token = 0 THEN <<>> ELSE reset_tokens[db_token],
                        redeemable |-> Redeemable(token),
                        overlapped |-> \E d \in ResetCallers \ {c} :
                                          inflight.reset[d].pc = "selected",
                        result |-> None]]
    /\ UNCHANGED <<products, orders, limiter, settings, now, ticks, users, refresh_tokens,
                   reset_tokens, login_attempts, sessions, last>>

\* lines 360-380: the row as loaded is validated, the hash and the flag are
\* written and committed
reset_finish(c) ==
    LET slot == inflight.reset[c]
        outcome == IF slot.email = None \/ slot.db_token = 0
                   THEN "InvalidTokenError"
                   ELSE IF ~PasswordResetToken_is_valid(slot.loaded, now)
                   THEN "InvalidTokenError"
                   ELSE "ok"
    IN
    /\ slot.pc = "selected"
    /\ IF outcome = "ok"
       THEN /\ users' = [users EXCEPT ![slot.loaded.user_id].hashed_password =
                            get_password_hash(slot.new_password)]
            /\ reset_tokens' = [reset_tokens EXCEPT ![slot.db_token] =
                                   PasswordResetToken_mark_used(slot.loaded, now)]
       ELSE UNCHANGED <<users, reset_tokens>>
    /\ inflight' = [inflight EXCEPT !.reset[c] = [slot EXCEPT !.pc = "done", !.result = outcome]]
    /\ last' = [op |-> "reset_password",
                arg |-> [token |-> slot.token, new_password |-> slot.new_password],
                result |-> outcome,
                out |-> [http |-> IF outcome = "ok" THEN 200 ELSE 400],
                pre |-> [redeemable |-> slot.redeemable, users |-> users,
                         table |-> reset_tokens]]
    /\ UNCHANGED <<products, orders, limiter, settings, now, ticks, refresh_tokens,
                   login_attempts, sessions>>

(***************************************************************************)
(* The demo catalogue: ProductService (src/apps/demo/services.py)          *)
(***************************************************************************)
ProductNames == {"mug", "pen"}

\* ProductService.create_product; product_in carries name, is_active and
\* stock_quantity
create_product(product_in, created_by_id) ==
    LET existing == SelectFirst(products,
                        <<Cmp("name", "eq", product_in.name),
                          Literal(PyIs(Attr("Product", "is_active"), PyBool(TRUE)))>>)
        Call(result, status) == [op |-> "create_product",
                                 arg |-> [product_in |-> product_in,
                                          created_by_id |-> created_by_id],
                                 result |-> result,
                                 out |-> [http |-> status],
                                 pre |-> [table |-> products]]
    IN
    IF existing # 0
    THEN /\ last' = Call("HTTPException", 400)
         /\ UNCHANGED products
    ELSE /\ Len(products) < MaxProducts
         /\ products' = Append(products,
                               [name |-> product_in.name,
                                is_active |-> product_in.is_active,
                                stock_quantity |-> product_in.stock_quantity,
                                created_by_id |-> created_by_id])
         /\ last' = Call("ok", 200)

CreateProduct ==
    \E name \in ProductNames, is_active \in BOOLEAN, created_by_id \in UserIds :
        /\ create_product([name |-> name, is_active |-> is_active,
                           stock_quantity |-> MaxStock], created_by_id)
        /\ UNCHANGED <<inflight, orders, limiter, settings, now, ticks, users, refresh_tokens, reset_tokens,
                       login_attempts, sessions>>

\* ProductService.delete_product: soft delete
delete_product(product_id) ==
    /\ products[product_id].is_active
    /\ products' = [products EXCEPT ![product_id].is_active = FALSE]
    /\ last' = [op |-> "delete_product", arg |-> [product_id |-> product_id],
                result |-> "ok", out |-> [http |-> 200], pre |-> [table |-> products]]
    /\ UNCHANGED <<inflight, orders, limiter, settings, now, ticks, users, refresh_tokens, reset_tokens,
                   login_attempts, sessions>>

DeleteProduct == \E product_id \in 1..Len(products) : delete_product(product_id)

(***************************************************************************)
(* Orders: OrderService.create_order (src/apps/demo/services.py)           *)
(***************************************************************************)
\* the quantity the items of an order ask of one product
RECURSIVE QuantityOrdered(_, _)
QuantityOrdered(order_items, product_id) ==
    IF order_items = <<>> THEN 0
    ELSE (IF Head(order_items).product_id = product_id THEN Head(order_items).quantity ELSE 0)
         + QuantityOrdered(Tail(order_items), product_id)

\* the test the first loop applies to one item ("ok": the item passes)
order_item_check(item) ==
    IF item.product_id \notin 1..Len(products) \/ ~products[item.product_id].is_active
    THEN "not found or inactive"
    ELSE IF products[item.product_id].stock_quantity < item.quantity
    THEN "Insufficient stock"
    ELSE "ok"

\* OrderService.create_order: the first loop raises at the first item that
\* fails its test; otherwise the order and its items are inserted, the second
\* loop subtracts every item's quantity from its product, and all is committed
create_order(order_in, customer_id) ==
    LET items == order_in.order_items
        failing == {i \in 1..Len(items) : order_item_check(items[i]) # "ok"}
        first == CHOOSE i \in failing : \A j \in failing : i <= j
        Call(result, status, detail) ==
            [op |-> "create_order",
             arg |-> [order_in |-> order_in, customer_id |-> customer_id],
             result |-> result,
             out |-> [http |-> status, detail |-> detail],
             pre |-> [products |-> products, orders |-> orders]]
    IN
    /\ IF failing # {}
       THEN /\ last' = Call("HTTPException", 400, order_item_check(items[first]))
            /\ UNCHANGED <<products, orders>>
       ELSE /\ Len(orders) < MaxOrders
            /\ orders' = Append(orders, [customer_id |-> customer_id, order_items |-> items])
            /\ products' = [p \in 1..Len(products) |->
                               [products[p] EXCEPT !.stock_quantity =
                                   @ - QuantityOrdered(items, p)]]
            /\ last' = Call("ok", 200, "")
    /\ UNCHANGED <<inflight, limiter, settings, now, ticks, users, refresh_tokens, reset_tokens,
                   login_attempts, sessions>>

\* the orders a client can post: one to MaxItems items, each naming a
\* product id (the last of them an id that does not exist) and a quantity:
\* the whole stock of a new product, or one more
OrderItems == [product_id : 1..Len(products) + 1, quantity : MaxStock..MaxStock + 1]

CreateOrder ==
    \E n \in 1..MaxItems :
        \E order_items \in [1..n -> OrderItems] :
            create_order([order_items |-> order_items], "u1")

(***************************************************************************)
(* AuthenticationMiddleware (src/apps/auth/middleware.py), constructed     *)
(* with rate_limit_attempts and rate_limit_window as defined above.  In    *)
(* this part of the model the clock counts seconds.                        *)
(***************************************************************************)
ClientIps == {"10.0.0.1", "10.0.0.2"}

\* the list an address has in the map ([]: the address has no entry)
StoredTimestamps(storage, client_ip) ==
    IF client_ip \in DOMAIN storage THEN storage[client_ip] ELSE <<>>

\* _check_rate_limit that rejects only above the limit (> for >=)
_check_rate_limit_above(client_ip) ==
    LET window_start == now - rate_limit_window
        IsRecent(t) == t > window_start
        kept == SelectSeq(StoredTimestamps(rate_limit_storage, client_ip), IsRecent)
    IN  IF Len(kept) > rate_limit_attempts
        THEN [returned |-> FALSE, timestamps |-> kept]
        ELSE [returned |-> TRUE, timestamps |-> Append(kept, now)]

\* AuthenticationMiddleware._check_rate_limit: the value returned and the
\* list the address has in the map afterwards
_check_rate_limit(client_ip) ==
    LET window_start == now - rate_limit_window
        IsRecent(t) == t > window_start
        kept == SelectSeq(StoredTimestamps(rate_limit_storage, client_ip), IsRecent)
    IN  IF Len(kept) >= rate_limit_attempts
        THEN [returned |-> FALSE, timestamps |-> kept]
        ELSE [returned |-> TRUE, timestamps |-> Append(kept, now)]

\* AuthenticationMiddleware.__call__, lines 60-66, for a path that is not exempt
middleware_call(client_ip) ==
    LET check == _check_rate_limit(client_ip) IN
    /\ rate_limit_storage' =
           [ip \in DOMAIN rate_limit_storage \cup {client_ip} |->
               IF ip = client_ip THEN check.timestamps ELSE rate_limit_storage[ip]]
    /\ admitted' =
           [ip \in DOMAIN admitted \cup {client_ip} |->
               IF ip = client_ip
               THEN (IF check.returned
                     THEN Append(StoredTimestamps(admitted, ip), now)
                     ELSE StoredTimestamps(admitted, ip))
               ELSE admitted[ip]]
    /\ last' = [op |-> "_check_rate_limit", arg |-> [client_ip |-> client_ip],
                result |-> IF check.returned THEN "ok" ELSE "HTTPException",
                out |-> [returned |-> check.returned,
                         http |-> IF check.returned THEN 200 ELSE 429],
                pre |-> [storage |-> rate_limit_storage, admitted |-> admitted]]
    /\ UNCHANGED <<products, orders, inflight, settings, now, ticks, users, refresh_tokens,
                   reset_tokens, login_attempts, sessions>>

MiddlewareCall == \E client_ip \in ClientIps : middleware_call(client_ip)

\* time.time() advances by a second between requests
RateClockTick ==
    /\ now < MaxRateTime
    /\ now' = now + 1
    /\ last' = [op |-> "tick", arg |-> <<1>>, result |-> None, out |-> <<>>, pre |-> <<>>]
    /\ UNCHANGED <<rest, settings, ticks, users, refresh_tokens, reset_tokens,
                   login_attempts, sessions>>

(***************************************************************************)
(* Other operations on the state                                           *)
(***************************************************************************)
\* RefreshToken.revoke() on a persisted row, committed
revoke_refresh_token(i) ==
    /\ ~refresh_tokens[i].revoked
    /\ refresh_tokens' = [refresh_tokens EXCEPT ![i] = RefreshToken_revoke(@, now)]
    /\ last' = [op |-> "revoke", arg |-> [row |-> i], result |-> "ok", out |-> <<>>, pre |-> <<>>]
    /\ UNCHANGED <<rest, settings, now, ticks, users, reset_tokens, login_attempts, sessions>>

RevokeRefreshToken == \E i \in 1..Len(refresh_tokens) : revoke_refresh_token(i)

\* UserService.deactivate_user
deactivate_user(user_id) ==
    /\ users[user_id].is_active
    /\ users' = [users EXCEPT ![user_id].is_active = FALSE]
    /\ last' = [op |-> "deactivate_user", arg |-> [user_id |-> user_id], result |-> "ok",
                out |-> <<>>, pre |-> <<>>]
    /\ UNCHANGED <<rest, settings, now, ticks, refresh_tokens, reset_tokens, login_attempts, sessions>>

DeactivateUser == \E u \in UserIds : deactivate_user(u)

\* AuthService.get_auth_status: the AuthStatusResponse (session_id 0: None)
auth_status(user_id) ==
    LET active_sessions == get_active_sessions(user_id)
        first == IF active_sessions = {} THEN 0
                 ELSE CHOOSE i \in active_sessions : \A j \in active_sessions : i <= j
    IN  [authenticated |-> TRUE,
         session_id |-> first,
         expires_at |-> IF first = 0 THEN NoTime ELSE sessions[first].expires_at]

get_auth_status(user_id) ==
    /\ last' = [op |-> "get_auth_status", arg |-> [user_id |-> user_id], result |-> "ok",
                out |-> auth_status(user_id),
                pre |-> <<>>]
    /\ UNCHANGED <<rest, settings, now, ticks, users, refresh_tokens, reset_tokens,
                   login_attempts, sessions>>

GetAuthStatus == \E u \in UserIds : get_auth_status(u)

\* the clock advances between requests
Tick(d) ==
    /\ ticks < MaxTicks
    /\ now' = now + d
    /\ ticks' = ticks + 1
    /\ last' = [op |-> "tick", arg |-> <<d>>, result |-> None, out |-> <<>>, pre |-> <<>>]
    /\ UNCHANGED <<rest, settings, users, refresh_tokens, reset_tokens, login_attempts, sessions>>

(***************************************************************************)
(* The refresh-token and session lifecycle: logins that succeed, refresh,  *)
(* logout, revocation, deactivation                                        *)
(***************************************************************************)
TokenLogin ==
    \E u \in UserIds, remember_me \in BOOLEAN :
        /\ Len(login_attempts) < MaxAttempts
        /\ authenticate_user("login", EmailOfUser[u], users[u].hashed_password.pw,
                             remember_me, None)

\* the clock advances between requests
ClockTick == \E d \in {1, RefreshTTLMinutes} : Tick(d)

Next ==
    \/ TokenLogin
    \/ Refresh
    \/ Logout
    \/ RevokeRefreshToken
    \/ DeactivateUser
    \/ ClockTick

Spec == Init /\ [][Next]_vars

\* refresh tokens handed out at login and redeemed while accounts are
\* deactivated and the clock advances
RefreshLogin ==
    \E u \in UserIds :
        /\ Len(login_attempts) < MaxAttempts
        /\ authenticate_user("login", EmailOfUser[u], users[u].hashed_password.pw, TRUE, None)

NextRefresh ==
    \/ RefreshLogin
    \/ Refresh
    \/ RevokeRefreshToken
    \/ DeactivateUser
    \/ ClockTick

SpecRefresh == Init /\ [][NextRefresh]_vars

(***************************************************************************)
(* The login endpoints                                                     *)
(***************************************************************************)
LoginClockTick == \E d \in {1} : Tick(d)

NextLogin ==
    \/ Login
    \/ LoginAccessToken
    \/ DeactivateUser
    \/ LoginClockTick

SpecLogin == Init /\ [][NextLogin]_vars

(***************************************************************************)
(* The password-reset flow, with the logins that hand out refresh tokens   *)
(***************************************************************************)
ResetLogin ==
    \E u \in UserIds, password \in Passwords :
        /\ Len(login_attempts) < MaxAttempts
        /\ authenticate_user("login", EmailOfUser[u], password, TRUE, None)

ResetClockTick == \E d \in {1, ResetRowTTLMinutes} : Tick(d)

NextReset ==
    \/ ResetLogin
    \/ RequestPasswordReset
    \/ ResetPassword
    \/ ResetClockTick

SpecReset == Init /\ [][NextReset]_vars

\* the reset ledger alone: recovery requests and the redemption of their tokens
NextResetLedger ==
    \/ RequestPasswordReset
    \/ ResetPassword
    \/ ResetClockTick

SpecResetLedger == Init /\ [][NextResetLedger]_vars

(***************************************************************************)
(* The login throttle: logins of one account from two client addresses     *)
(***************************************************************************)
ThrottleLogin ==
    \E password \in Passwords, ip \in IpAddresses :
        /\ Len(login_attempts) < MaxThrottleAttempts
        /\ authenticate_user("login", EmailOfUser["u1"], password, FALSE, ip)

ThrottleClockTick == \E d \in {1, ThrottleWindowMinutes} : Tick(d)

NextThrottle ==
    \/ ThrottleLogin
    \/ ThrottleClockTick

SpecThrottle == Init /\ [][NextThrottle]_vars

\* the same logins with a clock that steps past the window
WindowClockTick == \E d \in {ThrottleWindowMinutes + 1} : Tick(d)

NextThrottleWindow ==
    \/ ThrottleLogin
    \/ WindowClockTick

SpecThrottleWindow == Init /\ [][NextThrottleWindow]_vars

(***************************************************************************)
(* Signup, and the requests of clients that type their address in another  *)
(* letter case                                                             *)
(***************************************************************************)
SignupLogin ==
    \E email \in {EmailOfUser["u1"], "c@x.com", GhostEmail} \cup CaseVariants,
       password \in Passwords :
        /\ Len(login_attempts) < MaxSignupAttempts
        /\ authenticate_user("login", EmailStr(email), password, FALSE, None)

SignupRecovery ==
    \E email \in {EmailOfUser["u1"], GhostEmail} \cup CaseVariants :
        request_password_reset(EmailStr(email), TRUE)

NextSignup ==
    \/ RegisterUser
    \/ SignupLogin
    \/ SignupRecovery
    \/ DeactivateUser

SpecSignup == Init /\ [][NextSignup]_vars

(***************************************************************************)
(* Password changes, with the logins that upgrade the stored hash          *)
(***************************************************************************)
PasswordLogin ==
    \E u \in UserIds, password \in Passwords :
        /\ Len(login_attempts) < MaxAttempts
        /\ authenticate_user("login", EmailOfUser[u], password, FALSE, None)

NextPassword ==
    \/ ChangePassword
    \/ UpdateUserPassword
    \/ PasswordLogin

SpecPassword == Init /\ [][NextPassword]_vars

(***************************************************************************)
(* The demo catalogue                                                      *)
(***************************************************************************)
NextDemo ==
    \/ CreateProduct
    \/ DeleteProduct

SpecDemo == Init /\ [][NextDemo]_vars

(***************************************************************************)
(* Requests that interleave: a login and a logout, each handled commit by  *)
(* commit                                                                  *)
(***************************************************************************)
StepLoginAuthenticate ==
    \E u \in UserIds, remember_me \in BOOLEAN :
        /\ Len(login_attempts) < MaxAttempts
        /\ Len(sessions) < MaxSessions
        /\ Len(refresh_tokens) < MaxTokens
        /\ login_authenticate(EmailOfUser[u], users[u].hashed_password.pw, remember_me, None)

StepLoginCreateTokens == login_create_tokens

StepLoginCreateSession == \E commit_ok \in BOOLEAN : login_create_session(commit_ok)

StepLoginLogAttempt == \E commit_ok \in BOOLEAN : login_log_attempt(commit_ok)

StepLogoutSelect ==
    \E u \in UserIds, form \in {"UUID", "str"} :
        logout_select(IF form = "UUID" THEN PyUUID(u) ELSE PyStr(u), NoToken, TRUE)

StepLogoutFinish == logout_finish

NextSteps ==
    \/ StepLoginAuthenticate
    \/ StepLoginCreateTokens
    \/ StepLoginCreateSession
    \/ StepLoginLogAttempt
    \/ StepLogoutSelect
    \/ StepLogoutFinish

SpecSteps == Init /\ [][NextSteps]_vars

(***************************************************************************)
(* The authentication status of logged-in users                            *)
(***************************************************************************)
StatusLogin ==
    \E u \in UserIds, remember_me \in BOOLEAN :
        /\ Len(sessions) < MaxSessions
        /\ authenticate_user("login", EmailOfUser[u], users[u].hashed_password.pw,
                             remember_me, None)

StatusClockTick == \E d \in {1, ACCESS_TOKEN_EXPIRE_MINUTES} : Tick(d)

NextStatus ==
    \/ StatusLogin
    \/ GetAuthStatus
    \/ StatusClockTick

SpecStatus == Init /\ [][NextStatus]_vars

(***************************************************************************)
(* The three ledgers under every operation of the authentication service   *)
(***************************************************************************)
LedgerLogin ==
    \E password \in Passwords :
        /\ Len(login_attempts) < MaxAttempts
        /\ Len(refresh_tokens) < MaxTokens
        /\ authenticate_user("login", EmailOfUser["u1"], password, TRUE, None)

LedgerRegister ==
    /\ Cardinality(DOMAIN users) < MaxUsers
    /\ Len(login_attempts) < MaxSignupAttempts
    /\ register_user("c@x.com", "pw1", None)

LedgerLogout ==
    \E form \in {"UUID", "str"}, all_devices \in BOOLEAN,
       refresh_token \in {UrlSafe(n) : n \in 1..Len(refresh_tokens)} \cup {NoToken} :
        /\ all_devices => refresh_token = NoToken
        /\ logout_user(IF form = "UUID" THEN PyUUID("u1") ELSE PyStr("u1"),
                       refresh_token, all_devices)

LedgerRecovery == \E email \in {EmailOfUser["u1"], GhostEmail} : request_password_reset(email, TRUE)

LedgerChangePassword ==
    \E current_password \in Passwords : change_password("u1", current_password, "pw1")

LedgerStatus == get_auth_status("u1")

NextLedger ==
    \/ LedgerLogin
    \/ Refresh
    \/ LedgerRegister
    \/ LedgerLogout
    \/ RevokeRefreshToken
    \/ LedgerRecovery
    \/ ResetPassword
    \/ LedgerChangePassword
    \/ LedgerStatus

SpecLedger == Init /\ [][NextLedger]_vars

(***************************************************************************)
(* The tokens reset_password is presented with: recorded by a recovery     *)
(* request, possibly long-lived, or signed with the server key but never   *)
(* recorded                                                                *)
(***************************************************************************)
InitTokens == InitWith(ResetTokenLifetimes)

TokensRecovery == request_password_reset(EmailOfUser["u1"], TRUE)

\* correctly signed tokens that no recovery request recorded: a reset token
\* minted by calling generate_password_reset_token directly, and an access token
UnrecordedTokens ==
    {generate_password_reset_token(EmailOfUser["u1"],
                                   settings.EMAIL_RESET_TOKEN_EXPIRE_HOURS, now, 0),
     create_access_token("u1", ACCESS_TOKEN_EXPIRE_MINUTES, now)}

ResetPasswordUnrecorded ==
    \E token \in UnrecordedTokens, new_password \in Passwords :
        reset_password(token, new_password)

TokensClockTick == \E d \in {1, ResetRowTTLMinutes + 1} : Tick(d)

NextTokens ==
    \/ TokensRecovery
    \/ ResetPassword
    \/ ResetPasswordUnrecorded
    \/ TokensClockTick

SpecTokens == InitTokens /\ [][NextTokens]_vars

(***************************************************************************)
(* Two clients redeeming reset tokens at the same time                     *)
(***************************************************************************)
RaceRecovery == \E u \in UserIds : request_password_reset(EmailOfUser[u], TRUE)

StepResetSelect ==
    \E c \in ResetCallers,
       token \in {reset_tokens[i].token_hash.sha256 : i \in 1..Len(reset_tokens)},
       new_password \in Passwords :
        reset_select(c, token, new_password)

StepResetFinish == \E c \in ResetCallers : reset_finish(c)

NextResetRace ==
    \/ RaceRecovery
    \/ StepResetSelect
    \/ StepResetFinish

SpecResetRace == Init /\ [][NextResetRace]_vars

(***************************************************************************)
(* The demo shop: a catalogue of stocked products and the orders on it     *)
(***************************************************************************)
StockProduct ==
    \E name \in ProductNames :
        /\ Len(products) < MaxStocked
        /\ create_product([name |-> name, is_active |-> TRUE, stock_quantity |-> MaxStock], "u1")
        /\ UNCHANGED <<inflight, orders, limiter, settings, now, ticks, users, refresh_tokens,
                       reset_tokens, login_attempts, sessions>>

NextOrders ==
    \/ StockProduct
    \/ DeleteProduct
    \/ CreateOrder

SpecOrders == Init /\ [][NextOrders]_vars

(***************************************************************************)
(* The rate limiter of the middleware under requests from two addresses    *)
(***************************************************************************)
NextRateLimit ==
    \/ MiddlewareCall
    \/ RateClockTick

SpecRateLimit == Init /\ [][NextRateLimit]_vars

(***************************************************************************)
(* Properties                                                              *)
(***************************************************************************)
\* the row of auth_refresh_tokens that stores the hash of a raw secret (0: none)
RefreshRowOf(refresh_token) ==
    IF \E i \in 1..Len(refresh_tokens) : refresh_tokens[i].token_hash = _hash_token(refresh_token)
    THEN CHOOSE i \in 1..Len(refresh_tokens) :
             refresh_tokens[i].token_hash = _hash_token(refresh_token)
    ELSE 0

\* the row of auth_password_reset_tokens that stores the hash of a raw token (0: none)
ResetRowOf(token) ==
    IF \E i \in 1..Len(reset_tokens) : reset_tokens[i].token_hash = _hash_token(token)
    THEN CHOOSE i \in 1..Len(reset_tokens) : reset_tokens[i].token_hash = _hash_token(token)
    ELSE 0

\* C1: when 5 failed attempts for the email (from the same ip, when one is
\* supplied) lie within the trailing 15 minutes, the next authenticate_user
\* call for that email is rejected with TooManyLoginAttemptsError, whatever
\* the password
C1_ThrottleRejectsSixthAttempt ==
    (last.op = "authenticate_user" /\ last.pre.failures >= ThrottleMaxFailures)
        => last.result = "TooManyLoginAttemptsError"

\* C2: refresh_access_token called with the raw secret of a row that is not
\* revoked, not expired and belongs to an active user returns a new access
\* token and leaves the ledger unchanged
C2_RefreshRedeemsValidToken ==
    (/\ last.op = "refresh_access_token"
     /\ RefreshRowOf(last.arg.refresh_token) # 0
     /\ RefreshToken_is_valid(refresh_tokens[RefreshRowOf(last.arg.refresh_token)], now)
     /\ users[refresh_tokens[RefreshRowOf(last.arg.refresh_token)].user_id].is_active)
        => /\ last.result = "ok"
           /\ last.out.access_token.kind = "jwt"
           /\ refresh_tokens = last.pre.table

\* C3: the first reset_password call with a token obtained from
\* request_password_reset, within its validity, succeeds, stores a hash of the
\* new password and marks the row used; a call with a token that is not (or no
\* longer) redeemable fails with InvalidTokenError and changes nothing
C3_ResetTokenRedeemedExactlyOnce ==
    last.op = "reset_password" =>
        IF last.pre.redeemable
        THEN /\ last.result = "ok"
             /\ reset_tokens[ResetRowOf(last.arg.token)].used
             /\ unified_verify_password(last.arg.new_password,
                    users[reset_tokens[ResetRowOf(last.arg.token)].user_id].hashed_password)
        ELSE /\ last.result = "InvalidTokenError"
             /\ users = last.pre.users
             /\ reset_tokens = last.pre.table

\* C4: refresh_access_token returns no access token for a secret whose row is
\* revoked or whose expires_at is not later than now; it fails with
\* InvalidTokenError
C4_RevokedOrExpiredNeverRefreshes ==
    (/\ last.op = "refresh_access_token"
     /\ RefreshRowOf(last.arg.refresh_token) # 0
     /\ \/ refresh_tokens[RefreshRowOf(last.arg.refresh_token)].revoked
        \/ refresh_tokens[RefreshRowOf(last.arg.refresh_token)].expires_at <= now)
        => /\ last.result = "InvalidTokenError"
           /\ last.out.access_token = NoToken

\* a revoked row is presented before its expires_at and the call has failed
C4_Witness ==
    /\ last.op = "refresh_access_token"
    /\ RefreshRowOf(last.arg.refresh_token) # 0
    /\ refresh_tokens[RefreshRowOf(last.arg.refresh_token)].revoked
    /\ refresh_tokens[RefreshRowOf(last.arg.refresh_token)].expires_at > now
    /\ refresh_tokens[RefreshRowOf(last.arg.refresh_token)].revoked_at < now
    /\ last.result = "InvalidTokenError"

\* C5: after logout_user(user_id, all_devices=True) has returned, every
\* refresh-token row of the user is revoked with revoked_at set, and the rows
\* of the other users are as before
C5_LogoutAllDevicesRevokesAll ==
    (last.op = "logout_user" /\ last.arg.all_devices /\ last.out.returned)
        => \A i \in 1..Len(refresh_tokens) :
              IF refresh_tokens[i].user_id = last.arg.user_id.value
              THEN refresh_tokens[i].revoked /\ refresh_tokens[i].revoked_at # NoTime
              ELSE refresh_tokens[i] = last.pre.table[i]

\* C6: a successful login returns an access token; it returns a refresh token
\* and stores exactly one new row, holding the SHA-256 of the secret and not
\* the secret, if and only if remember_me is true; the refresh token differs
\* from the access token
C6_LoginIssuesTokens ==
    (last.op = "authenticate_user" /\ last.result = "ok")
        => /\ last.out.access_token.kind = "jwt"
           /\ (last.out.refresh_token # NoToken) <=> last.arg.remember_me
           /\ Len(refresh_tokens) =
                  last.pre.refresh_rows + (IF last.arg.remember_me THEN 1 ELSE 0)
           /\ last.arg.remember_me =>
                  /\ refresh_tokens[Len(refresh_tokens)].token_hash =
                         _hash_token(last.out.refresh_token)
                  /\ refresh_tokens[Len(refresh_tokens)].token_hash.sha256.kind = "urlsafe"
           /\ last.out.refresh_token # last.out.access_token

\* a login with remember_me=true has succeeded and handed out a refresh token
C6_Witness ==
    /\ last.op = "authenticate_user"
    /\ last.result = "ok"
    /\ last.arg.remember_me
    /\ last.out.refresh_token.kind = "urlsafe"
    /\ Len(refresh_tokens) = last.pre.refresh_rows + 1

\* C7: a login that fails because of a wrong password, an unknown email or an
\* inactive account raises InvalidCredentialsError and the endpoint answers
\* as it does for InvalidCredentialsError
C7_LoginFailuresIndistinguishable ==
    (/\ last.op = "authenticate_user"
     /\ last.pre.cause \in {"wrong_password", "unknown_email", "inactive_account"}
     /\ last.pre.failures < ThrottleMaxFailures)
        => /\ last.result = "InvalidCredentialsError"
           /\ last.out.http = login_response(last.arg.endpoint, "InvalidCredentialsError")

\* C8: the password-recovery endpoint answers a request for the email of an
\* existing user as it answers a request for an email of no user, and for an
\* email of no user it stores no row and hands out no token
C8_RecoveryResponseUniform ==
    last.op = "request_password_reset" =>
        /\ last.out.response = recovery_response(FALSE)
        /\ get_user_by_email(last.arg.email) = None =>
               /\ Len(reset_tokens) = last.pre.rows
               /\ last.out.emailed = NoToken

\* C9: when reset_password has been called with a redeemable token, no
\* refresh-token row of the user whose password is reset is left non-revoked
C9_ResetRevokesRefreshTokens ==
    (last.op = "reset_password" /\ last.pre.redeemable)
        => \A i \in 1..Len(refresh_tokens) :
              refresh_tokens[i].user_id = reset_tokens[ResetRowOf(last.arg.token)].user_id
                  => refresh_tokens[i].revoked

\* C10: after logout_user has returned, every session row of the user has
\* is_active = false and get_auth_status reports no session_id
C10_LogoutInvalidatesSessions ==
    (last.op = "logout_user" /\ last.out.returned)
        => /\ \A i \in 1..Len(sessions) :
                 sessions[i].user_id = last.arg.user_id.value => ~sessions[i].is_active
           /\ auth_status(last.arg.user_id.value).session_id = 0

\* C11: logout_user called with the id of an existing user as the
\* /auth/logout endpoint passes it (a uuid.UUID), with or without a refresh
\* token, for one device or all, returns True and the endpoint answers 200
C11_LogoutEndsInSuccess ==
    (last.op = "logout_user" /\ last.arg.user_id.type = "UUID")
        => /\ last.result = "ok"
           /\ last.out.returned
           /\ last.out.http = 200

\* C12: every login call that reaches credential verification appends
\* exactly one LoginAttempt row whose successful flag is the outcome of the
\* call, and every successful register_user appends exactly one row with
\* successful = true and failure_reason "user_registration"
C12_EveryAttemptLogged ==
    /\ (last.op = "authenticate_user" /\ last.out.credentials_checked)
           => /\ Len(login_attempts) = last.pre.attempt_rows + 1
              /\ login_attempts[Len(login_attempts)].email = last.arg.email
              /\ login_attempts[Len(login_attempts)].successful = (last.result = "ok")
    /\ (last.op = "register_user" /\ last.result = "ok")
           => /\ Len(login_attempts) = last.pre.attempt_rows + 1
              /\ login_attempts[Len(login_attempts)].successful
              /\ login_attempts[Len(login_attempts)].failure_reason = "user_registration"

\* the user whose address equals the given one up to letter case (None: no user)
UserOfAddress(email) ==
    IF \E u \in DOMAIN users : lower(users[u].email) = lower(email)
    THEN CHOOSE u \in DOMAIN users : lower(users[u].email) = lower(email)
    ELSE None

\* C13: no two users have addresses equal up to letter case; a signup with an
\* address that differs only in letter case from a user's address fails
\* with UserAlreadyExistsError; login and request_password_reset find the
\* user whatever the letter case of the address supplied
C13_EmailCaseNormalized ==
    /\ \A u, v \in DOMAIN users :
           lower(users[u].email) = lower(users[v].email) => u = v
    /\ (/\ last.op = "register_user"
        /\ \E u \in DOMAIN last.pre.users :
               lower(last.pre.users[u].email) = lower(last.arg.email))
           => last.result = "UserAlreadyExistsError"
    /\ (/\ last.op = "authenticate_user"
        /\ UserOfAddress(last.arg.email) # None
        /\ last.pre.users[UserOfAddress(last.arg.email)].is_active
        /\ unified_verify_password(last.arg.password,
               last.pre.users[UserOfAddress(last.arg.email)].hashed_password))
           => last.result = "ok"
    /\ (last.op = "request_password_reset" /\ UserOfAddress(last.arg.email) # None)
           => /\ last.result = "ok"
              /\ Len(reset_tokens) = last.pre.rows + 1
              /\ reset_tokens[Len(reset_tokens)].user_id = UserOfAddress(last.arg.email)

\* C14: change_password with a wrong current password raises
\* InvalidCredentialsError and leaves the stored hash unchanged; with the
\* correct one the stored hash afterwards verifies the new password and no
\* longer verifies the old one
C14_ChangePasswordChecksCurrent ==
    last.op = "change_password" =>
        IF unified_verify_password(last.arg.current_password,
                                   last.pre.users[last.arg.user_id].hashed_password)
        THEN /\ last.result = "ok"
             /\ unified_verify_password(last.arg.new_password,
                                        users[last.arg.user_id].hashed_password)
             /\ last.arg.new_password # last.arg.current_password
                    => ~unified_verify_password(last.arg.current_password,
                                                users[last.arg.user_id].hashed_password)
        ELSE /\ last.result = "InvalidCredentialsError"
             /\ users = last.pre.users

\* C15: a successful login of a user whose stored hash is of another
\* algorithm family than the configured one replaces the stored hash by a
\* hash of the configured algorithm that verifies the same password; when the
\* families are equal the stored hash is unchanged; no other user is touched
C15_LoginUpgradesHash ==
    (last.op = "authenticate_user" /\ last.result = "ok") =>
        LET u == get_user_by_email(last.arg.email)
            old_hash == last.pre.users[u].hashed_password
            new_hash == users[u].hashed_password
        IN  /\ IF old_hash.alg # settings.PASSWORD_HASH_ALGORITHM
               THEN /\ new_hash.alg = settings.PASSWORD_HASH_ALGORITHM
                    /\ unified_verify_password(last.arg.password, new_hash)
               ELSE new_hash = old_hash
            /\ \A v \in DOMAIN users \ {u} : users[v] = last.pre.users[v]

\* a user with a bcrypt hash has logged in under the Argon2 configuration and
\* the stored hash is now an Argon2 hash
C15_Witness ==
    /\ last.op = "authenticate_user"
    /\ last.result = "ok"
    /\ settings.PASSWORD_HASH_ALGORITHM = "argon2"
    /\ last.pre.users[get_user_by_email(last.arg.email)].hashed_password.alg = "bcrypt"
    /\ users[get_user_by_email(last.arg.email)].hashed_password.alg = "argon2"

\* C16: create_product rejects with HTTP 400 a product whose name is the name
\* of an existing active product and creates no row; no two active products
\* ever share a name
C16_ActiveProductNamesUnique ==
    /\ (/\ last.op = "create_product"
        /\ \E i \in 1..Len(last.pre.table) :
               /\ last.pre.table[i].name = last.arg.product_in.name
               /\ last.pre.table[i].is_active)
           => /\ last.out.http = 400
              /\ products = last.pre.table
    /\ \A i, j \in 1..Len(products) :
           (products[i].is_active /\ products[j].is_active
            /\ products[i].name = products[j].name) => i = j

C18_ResetCommitsAsOneUnit ==
    [][/\ \A i \in 1..Len(reset_tokens) :
             (~reset_tokens[i].used /\ reset_tokens'[i].used)
                 => /\ last'.op = "reset_password"
                    /\ last'.result = "ok"
                    /\ reset_tokens[i].token_hash = _hash_token(last'.arg.token)
                    /\ unified_verify_password(last'.arg.new_password,
                           users'[reset_tokens[i].user_id].hashed_password)
       /\ (last'.op = "reset_password" /\ last'.result # "ok")
             => /\ reset_tokens' = reset_tokens
                /\ users' = users]_vars

\* reset_password has failed on a token whose ledger row exists, and the row
\* and the users are as they were
C18_Witness ==
    /\ last.op = "reset_password"
    /\ last.result = "InvalidTokenError"
    /\ ResetRowOf(last.arg.token) # 0
    /\ ~reset_tokens[ResetRowOf(last.arg.token)].used
    /\ reset_tokens = last.pre.table
    /\ users = last.pre.users

\* C19: when a login (remember_me = true) of a user commits its refresh-token
\* row after a logout_user(all_devices = True) of the same user has selected
\* the rows to revoke and before that logout ends, both calls complete and
\* the row is left non-revoked and unexpired
C19_RaceLeavesTokenUnrevoked ==
    LET login == inflight.login
        logout == inflight.logout
        row == RefreshRowOf(login.refresh_token)
    IN  (/\ logout.pc = "done"
         /\ logout.arg.all_devices
         /\ login.pc = "done"
         /\ login.result = "ok"
         /\ login.arg.remember_me
         /\ login.user = logout.arg.user_id.value
         /\ row > logout.rows_seen
         /\ row <= logout.rows_at_end)
            => /\ logout.result = "ok"
               /\ ~refresh_tokens[row].revoked
               /\ refresh_tokens[row].expires_at > now

\* C20: the refresh-token row, the session row and the attempt row written by
\* one authenticate_user call are committed as one transaction: a call that
\* fails leaves none of its writes persisted, and no state another request
\* can read holds the refresh-token row without the session row and the
\* attempt row, or the session row without the attempt row
C20_LoginWritesAreOneTransaction ==
    LET login == inflight.login IN
    login.pc # "idle" =>
        LET wrote_token == Len(refresh_tokens) > login.pre.refresh_rows
            wrote_session == Len(sessions) > login.pre.session_rows
            wrote_attempt == Len(login_attempts) > login.pre.attempt_rows
        IN  /\ (login.pc = "done" /\ login.result # "ok")
                   => ~wrote_token /\ ~wrote_session /\ ~wrote_attempt
            /\ wrote_token => wrote_session /\ wrote_attempt
            /\ wrote_session => wrote_attempt

\* the sessions of a user that are flagged active and have not expired
LiveSessions(user_id) ==
    {i \in 1..Len(sessions) :
        /\ sessions[i].user_id = user_id
        /\ sessions[i].is_active
        /\ sessions[i].expires_at > now}

\* C21: while a user who logged in has a session that is active and has not
\* expired, get_auth_status answers authenticated = true with the id and the
\* expiry of one of those sessions, never None.
C21_StatusNamesLiveSession ==
    (last.op = "get_auth_status" /\ LiveSessions(last.arg.user_id) # {}) =>
        /\ last.out.authenticated
        /\ last.out.session_id \in LiveSessions(last.arg.user_id)
        /\ last.out.expires_at = sessions[last.out.session_id].expires_at

\* a ledger keeps its rows, each in its place
RowsKept(before, after) == Len(after) >= Len(before)

\* C22: under every operation of the authentication service no ledger row is
\* deleted; a LoginAttempt row never changes once inserted; a RefreshToken
\* row changes only by revoked going from false to true with revoked_at set;
\* a PasswordResetToken row changes only by used going from false to true
\* with used_at set; neither flag ever goes back.
C22_LedgersAppendOnly ==
    [][ /\ RowsKept(login_attempts, login_attempts')
        /\ RowsKept(refresh_tokens, refresh_tokens')
        /\ RowsKept(reset_tokens, reset_tokens')
        /\ \A i \in 1..Len(login_attempts) : login_attempts'[i] = login_attempts[i]
        /\ \A i \in 1..Len(refresh_tokens) :
              \/ refresh_tokens'[i] = refresh_tokens[i]
              \/ /\ ~refresh_tokens[i].revoked
                 /\ refresh_tokens'[i].revoked
                 /\ refresh_tokens'[i].revoked_at # NoTime
                 /\ refresh_tokens'[i] = [refresh_tokens[i] EXCEPT
                                             !.revoked = TRUE,
                                             !.revoked_at = refresh_tokens'[i].revoked_at]
        /\ \A i \in 1..Len(reset_tokens) :
              \/ reset_tokens'[i] = reset_tokens[i]
              \/ /\ ~reset_tokens[i].used
                 /\ reset_tokens'[i].used
                 /\ reset_tokens'[i].used_at # NoTime
                 /\ reset_tokens'[i] = [reset_tokens[i] EXCEPT
                                           !.used = TRUE,
                                           !.used_at = reset_tokens'[i].used_at]
      ]_vars

\* a refresh token was revoked while the three ledgers hold rows
C22_Witness ==
    /\ last.op = "revoke"
    /\ \E i \in 1..Len(refresh_tokens) :
          refresh_tokens[i].revoked /\ refresh_tokens[i].revoked_at # NoTime
    /\ Len(login_attempts) > 0
    /\ Len(reset_tokens) > 0

\* C23: refresh_access_token issues no access token for a user who is not
\* active when the secret is redeemed, even when the row of the secret is
\* unrevoked and unexpired: the call fails with InvalidTokenError and changes
\* no table.
C23_InactiveUserNeverRefreshes ==
    [][ (/\ last'.op = "refresh_access_token"
         /\ RefreshRowOf(last'.arg.refresh_token) # 0
         /\ ~users[refresh_tokens[RefreshRowOf(last'.arg.refresh_token)].user_id].is_active)
            => /\ last'.result = "InvalidTokenError"
               /\ last'.out.access_token = NoToken
               /\ UNCHANGED <<users, refresh_tokens, reset_tokens, login_attempts, sessions>>
      ]_vars

\* the secret of a deactivated user is presented while its row is unrevoked
\* and unexpired, and the call has failed
C23_Witness ==
    /\ last.op = "refresh_access_token"
    /\ RefreshRowOf(last.arg.refresh_token) # 0
    /\ RefreshToken_is_valid(refresh_tokens[RefreshRowOf(last.arg.refresh_token)], now)
    /\ ~users[refresh_tokens[RefreshRowOf(last.arg.refresh_token)].user_id].is_active
    /\ last.result = "InvalidTokenError"

PresentedRow ==
    IF \E i \in 1..Len(last.pre.table) :
           last.pre.table[i].token_hash = _hash_token(last.arg.token)
    THEN CHOOSE i \in 1..Len(last.pre.table) :
             last.pre.table[i].token_hash = _hash_token(last.arg.token)
    ELSE 0

\* C25: a reset token that was never used is rejected by reset_password with
\* InvalidTokenError, and no password changes, once more than one hour has
\* passed since it was requested, whatever expiry the signed token carries.
C25_ResetTokenDiesAfterOneHour ==
    (/\ last.op = "reset_password"
     /\ PresentedRow # 0
     /\ ~last.pre.table[PresentedRow].used
     /\ now > last.pre.table[PresentedRow].created_at + ResetRowTTLMinutes)
        => /\ last.result = "InvalidTokenError"
           /\ users = last.pre.users
           /\ reset_tokens = last.pre.table

\* an unused token whose signature is still within its own expiry is
\* presented more than an hour after the request, and the call has failed
C25_Witness ==
    /\ last.op = "reset_password"
    /\ PresentedRow # 0
    /\ ~last.pre.table[PresentedRow].used
    /\ now > last.pre.table[PresentedRow].created_at + ResetRowTTLMinutes
    /\ verify_password_reset_token(last.arg.token, now) # None
    /\ last.result = "InvalidTokenError"

\* the ledger, as it was before the call, holds a row for the token the last
\* reset_password was given: same hash, email equal to the token's subject,
\* unused and unexpired
RecordedAndOpen ==
    \E i \in 1..Len(last.pre.table) :
        /\ last.pre.table[i].token_hash = _hash_token(last.arg.token)
        /\ last.pre.table[i].email = verify_password_reset_token(last.arg.token, now)
        /\ ~last.pre.table[i].used
        /\ last.pre.table[i].expires_at > now

\* C26: reset_password changes a password only if the ledger holds a row whose
\* token_hash is the SHA-256 of the presented token and whose email is the
\* token's subject, unused and unexpired; a correctly signed token without
\* such a row is rejected with InvalidTokenError and changes no user and no
\* ledger row.
C26_ResetNeedsLedgerRow ==
    (last.op = "reset_password" /\ ~RecordedAndOpen)
        => /\ last.result = "InvalidTokenError"
           /\ users = last.pre.users
           /\ reset_tokens = last.pre.table

\* a correctly signed, unexpired token naming a registered email, for which
\* the ledger has no row, was presented and the call has failed
C26_Witness ==
    /\ last.op = "reset_password"
    /\ verify_password_reset_token(last.arg.token, now) = EmailOfUser["u1"]
    /\ PresentedRow = 0
    /\ last.result = "InvalidTokenError"
    /\ users = last.pre.users

\* the two clients have finished reset_password calls made with one and the
\* same raw token
BothResetsDone ==
    /\ \A c \in ResetCallers : inflight.reset[c].pc = "done"
    /\ inflight.reset["r1"].token = inflight.reset["r2"].token

C28_ChangePasswordNeverOtherError ==
    last.op = "change_password" =>
        /\ last.result \in {"ok", "InvalidCredentialsError"}
        /\ last.result = "ok" <=>
               unified_verify_password(last.arg.current_password,
                                       last.pre.users[last.arg.user_id].hashed_password)

\* C29: after any sequence of create_order calls no product has a negative
\* stock_quantity; an order is accepted only if, for every product, the
\* quantity summed over all the items naming it does not exceed the stock
\* the product had; a rejected order creates no order and changes no stock.
C29_StockNeverNegative ==
    /\ \A p \in 1..Len(products) : products[p].stock_quantity >= 0
    /\ (last.op = "create_order" /\ last.result = "ok")
          => \A p \in 1..Len(last.pre.products) :
                QuantityOrdered(last.arg.order_in.order_items, p)
                    <= last.pre.products[p].stock_quantity
    /\ (last.op = "create_order" /\ last.result # "ok")
          => orders = last.pre.orders /\ products = last.pre.products

\* the calls of an address that were admitted in the span (s - window, s]
AdmittedWithin(history, client_ip, s) ==
    Cardinality({i \in 1..Len(StoredTimestamps(history, client_ip)) :
        /\ history[client_ip][i] > s - rate_limit_window
        /\ history[client_ip][i] <= s})

\* C30: _check_rate_limit admits, for each client ip, at most
\* rate_limit_attempts calls within any span of rate_limit_window seconds; a
\* rejected call records no timestamp; timestamps not newer than
\* now - rate_limit_window are discarded, so an ip is admitted again once
\* enough of them have aged out; the counters of different ips are
\* independent.
C30_RateLimiterSlidingWindow ==
    /\ \A ip \in ClientIps : \A s \in 0..now :
          AdmittedWithin(admitted, ip, s) <= rate_limit_attempts
    /\ last.op = "_check_rate_limit" =>
          LET ip == last.arg.client_ip IN
          /\ ~last.out.returned =>
                /\ Len(rate_limit_storage[ip]) <= Len(StoredTimestamps(last.pre.storage, ip))
                /\ admitted[ip] = StoredTimestamps(last.pre.admitted, ip)
          /\ \A i \in 1..Len(rate_limit_storage[ip]) :
                rate_limit_storage[ip][i] > now - rate_limit_window
          /\ AdmittedWithin(last.pre.admitted, ip, now) < rate_limit_attempts
                => last.out.returned
          /\ \A other \in ClientIps \ {ip} :
                /\ StoredTimestamps(rate_limit_storage, other)
                       = StoredTimestamps(last.pre.storage, other)
                /\ StoredTimestamps(admitted, other) = StoredTimestamps(last.pre.admitted, other)

\* an address whose list was full is admitted again because timestamps have
\* aged out of the window, while the other address has calls on record
C30_Witness ==
    /\ last.op = "_check_rate_limit"
    /\ last.out.returned
    /\ Len(StoredTimestamps(last.pre.storage, last.arg.client_ip)) = rate_limit_attempts
    /\ \E other \in ClientIps \ {last.arg.client_ip} :
          Len(StoredTimestamps(rate_limit_storage, other)) > 0
====
